---- MODULE Spec2Model ----
(***************************************************************************)
(* State-machine model of src/sd_video.py: SDVideo.__call__ (one           *)
(* generation) and SDVideo.process_multiline_prompt (prompt chaining).     *)
(*                                                                         *)
(* Abstractions.  A pixel image is one channel and one column of ImgH      *)
(* rows with values in {0,1}; the statistics of process are taken over     *)
(* (batch, frame, row) exactly as mean/std(dim=[0,2,3]) do.  Weights are   *)
(* exact rationals <<num, den>> (float rounding is not modelled).  A video *)
(* frame is [seg, idx, enc]: the segment that generated it, its index in   *)
(* that segment, and how many times the lossy codec has encoded it.        *)
(* The UNet, the VAE and GaussianDiffusion.ddim_sample_loop are not in     *)
(* sd_video.py; the loop's contract is taken from the design document.     *)
(***************************************************************************)
EXTENDS Integers, Sequences, FiniteSets, TLC

\* ---- bounds -------------------------------------------------------------
MaxPromptLen == 2      \* characters in multiline_prompt
MaxFrames    == 4      \* max_frames ranges over 1..MaxFrames
Den          == 3      \* initial_alpha = a/Den, ratio = r/Den
ImgH         == 2      \* pixel rows of an image
NumSteps     == 3      \* sampling steps of one ddim_sample_loop run (ddim_timesteps)

\* ---- values -------------------------------------------------------------
NL == "nl"
Chars == {"a", NL}
InputPath == "input.png"
TempPath == "temp_last_frame.png"
Paths == {InputPath, TempPath}

NoErr == [kind |-> "none", step |-> -1]
CallerOrigin == [seg |-> 0, idx |-> 0]
NoFile == [origin |-> [seg |-> -1, idx |-> -1], px |-> <<>>]
NoEmb == [emb_of |-> <<"unset">>]
PriorFile == <<[seg |-> 0, idx |-> 0, enc |-> 1]>>

Pixels == [1..ImgH -> {0, 1}]
SeqsUpTo(S, n) == UNION {[1..k -> S] : k \in 0..n}

VARIABLES
  mode,             \* "call": __call__ is the entry point; "multi": process_multiline_prompt
  multiline_prompt, \* argument of process_multiline_prompt
  text, text_neg,   \* arguments of the running __call__
  max_frames, initial_alpha, ratio,
  imageFiles,       \* image files on disk, by path
  image_path,
  outFile,          \* frames stored in the video at output_file_path
  writerOpen,       \* the imageio writer holds the output file open
  pc, err,
  prompts, seg,     \* split prompts and the number of the running segment
  text_emb, text_emb_neg, context, model_kwargs,
  guide,            \* conditioning the sampler used as positive / negative
  image_tensor, alphas, blended, latentNaN, step,
  video,            \* frames in memory handed to save_webm
  wpos,             \* frames appended by the open writer
  all_frames,
  seeds             \* history: origin of the seed image of each segment

vars == <<mode, multiline_prompt, text, text_neg, max_frames, initial_alpha,
          ratio, imageFiles, image_path, outFile, writerOpen, pc, err, prompts,
          seg, text_emb, text_emb_neg, context, model_kwargs, guide,
          image_tensor, alphas, blended, latentNaN, step, video, wpos,
          all_frames, seeds>>

\* ---- pure helpers -------------------------------------------------------
RECURSIVE Pow(_, _)
Pow(b, e) == IF e = 0 THEN 1 ELSE b * Pow(b, e - 1)

RECURSIVE SumSeq(_)
SumSeq(s) == IF s = <<>> THEN 0 ELSE Head(s) + SumSeq(Tail(s))

RECURSIVE Split(_)
\* str.split("\n")
Split(s) ==
  IF \A i \in 1..Len(s) : s[i] # NL
  THEN <<s>>
  ELSE LET i == CHOOSE k \in 1..Len(s) :
                   s[k] = NL /\ \A m \in 1..(k - 1) : s[m] # NL
       IN <<SubSeq(s, 1, i - 1)>> \o Split(SubSeq(s, i + 1, Len(s)))

\* text_encoder(text): the embedding is a function of the text
Encode(t) == [emb_of |-> t]

MakeContextSwapped(emb, emb_neg) == <<emb, emb_neg>>
\* torch.cat([text_emb_neg, text_emb], dim=0)
MakeContext(emb, emb_neg) == <<emb_neg, emb>>

\* model_kwargs=[{'y': context[1]}, {'y': context[0]}] (0-based in the source)
MakeKwargs(ctx) == <<ctx[2], ctx[1]>>

\* preprocess_image_RGB: the image replicated over max_frames frames
preprocess_image_RGB(img, F) ==
  [origin |-> img.origin, frames |-> [j \in 1..F |-> img.px]]

\* image_tensor.std(dim=[0,2,3]) == 0, as n*sum(x^2) - sum(x)^2 == 0
StdIsZero(t) ==
  LET F == Len(t.frames)
      H == Len(t.frames[1])
      n == F * H
      S == SumSeq([j \in 1..F |-> SumSeq(t.frames[j])])
      Q == SumSeq([j \in 1..F |-> SumSeq([r \in 1..H |-> t.frames[j][r] * t.frames[j][r]])])
  IN n * Q - S * S = 0

AlphasShifted(a0, r, F) == [i \in 1..F |-> <<a0 * Pow(r, i), Den * Pow(Den, i)>>]
\* alphas = [initial_alpha * (ratio ** i) for i in range(max_frames)]
Alphas(a0, r, F) == [i \in 1..F |-> <<a0 * Pow(r, i - 1), Den * Pow(Den, i - 1)>>]

\* blended_frame = alpha * combined[..i..] + (1 - alpha) * noise[..i..]
Blended(al) ==
  [i \in 1..Len(al) |-> [img |-> al[i], noise |-> <<al[i][2] - al[i][1], al[i][2]>>]]

\* vae.decode + rearrange + tensor2vid: one frame per latent frame, in order
DecodedVideo(s, F) == [i \in 1..F |-> [seg |-> s, idx |-> i - 1, enc |-> 0]]

\* writer.append_data: the frame as stored by the lossy vp9 encoder
Encoded(f) == [f EXCEPT !.enc = @ + 1]

OpenedFileKeeping(old) == old
\* imageio.get_writer(file_path, ...) creates the file anew
OpenedFile(old) == <<>>

ExtendReversed(all, vf) == vf \o all
\* all_frames.extend(video_frames)
Extend(all, vf) == all \o vf

LastFrameFirst(vf) == vf[1]
\* video_frames[-1]
LastFrame(vf) == vf[Len(vf)]

\* pixel content of a generated frame: decided by the opaque networks
GenPx(flat) == [r \in 1..ImgH |-> IF flat THEN 0 ELSE r % 2]

\* what ddim_sample_loop raises when the network fails at step k
SamplingFailed(k) == [kind |-> "SamplingFailed", step |-> k]

\* ---- initial states -----------------------------------------------------
Init ==
  /\ mode \in {"call", "multi"}
  /\ multiline_prompt \in (IF mode = "multi" THEN SeqsUpTo(Chars, MaxPromptLen) ELSE {<<>>})
  /\ text \in (IF mode = "call" THEN {<<>>, <<"a">>} ELSE {<<>>})
  /\ text_neg \in (IF mode = "call" THEN {<<>>, <<"b">>} ELSE {<<>>})
  /\ max_frames \in 1..MaxFrames
  /\ initial_alpha \in 0..Den
  /\ ratio \in 1..Den
  /\ \E px \in Pixels \cup {<<>>} :
       imageFiles = [p \in Paths |->
                       IF p = InputPath THEN [origin |-> CallerOrigin, px |-> px]
                       ELSE NoFile]
  /\ image_path = InputPath
  /\ outFile = PriorFile
  /\ writerOpen = FALSE
  /\ pc = "start"
  /\ err = NoErr
  /\ prompts = <<>>
  /\ seg = 0
  /\ text_emb = NoEmb
  /\ text_emb_neg = NoEmb
  /\ context = <<>>
  /\ model_kwargs = <<>>
  /\ guide = [pos |-> NoEmb, neg |-> NoEmb]
  /\ image_tensor = [origin |-> NoFile.origin, frames |-> <<>>]
  /\ alphas = <<>>
  /\ blended = <<>>
  /\ latentNaN = FALSE
  /\ step = 0
  /\ video = <<>>
  /\ wpos = 0
  /\ all_frames = <<>>
  /\ seeds = <<>>

\* ---- actions ------------------------------------------------------------
inputVars == <<mode, multiline_prompt, text_neg, max_frames, initial_alpha, ratio>>
encVars == <<text_emb, text_emb_neg, context, model_kwargs, guide>>
latVars == <<image_tensor, alphas, blended, latentNaN, step>>
fileVars == <<imageFiles, image_path, outFile, writerOpen, wpos>>
loopVars == <<prompts, seg, all_frames, seeds>>

\* the caller invokes __call__ directly
CallEntry ==
  /\ pc = "start" /\ mode = "call"
  /\ seg' = 1
  /\ pc' = "preprocess"
  /\ UNCHANGED <<inputVars, text, encVars, latVars, fileVars, prompts,
                 all_frames, seeds, video, err>>

\* process_multiline_prompt: split the prompt, start with no frames
MultiEntry ==
  /\ pc = "start" /\ mode = "multi"
  /\ prompts' = Split(multiline_prompt)
  /\ all_frames' = <<>>
  /\ pc' = "loop"
  /\ UNCHANGED <<inputVars, text, encVars, latVars, fileVars, seg, seeds,
                 video, err>>

\* for prompt in prompts: self.__call__(prompt, ...); after the loop, concatenate
LoopHead ==
  /\ pc = "loop"
  /\ \/ /\ seg < Len(prompts)
        /\ seg' = seg + 1
        /\ text' = prompts[seg + 1]
        /\ pc' = "preprocess"
     \/ /\ seg = Len(prompts)
        /\ pc' = "concat_open"
        /\ UNCHANGED <<seg, text>>
  /\ UNCHANGED <<inputVars, encVars, latVars, fileVars, prompts, all_frames,
                 seeds, video, err>>

\* __call__: text_emb, text_emb_neg = self.preprocess(text, text_neg)
preprocess ==
  /\ pc = "preprocess"
  /\ text_emb' = Encode(text)
  /\ text_emb_neg' = Encode(text_neg)
  /\ pc' = "load_image"
  /\ UNCHANGED <<inputVars, text, context, model_kwargs, guide, latVars,
                 fileVars, loopVars, video, err>>

LoadImageTruncating ==
  /\ pc = "load_image"
  /\ context' = MakeContext(text_emb, text_emb_neg)
  /\ outFile' = OpenedFile(outFile)
  /\ IF imageFiles[image_path].px = <<>>
     THEN /\ err' = [kind |-> "ImageError", step |-> -1]
          /\ pc' = "raised"
          /\ UNCHANGED <<image_tensor, seeds>>
     ELSE /\ image_tensor' = preprocess_image_RGB(imageFiles[image_path], max_frames)
          /\ seeds' = Append(seeds, imageFiles[image_path].origin)
          /\ pc' = "blend"
          /\ UNCHANGED err
  /\ UNCHANGED <<inputVars, text, text_emb, text_emb_neg, model_kwargs, guide,
                 alphas, blended, latentNaN, step, imageFiles, image_path,
                 writerOpen, wpos, prompts, seg, all_frames, video>>

\* process: build the context, open and resize the image at image_path
LoadImage ==
  /\ pc = "load_image"
  /\ context' = MakeContext(text_emb, text_emb_neg)
  /\ IF imageFiles[image_path].px = <<>>
     THEN /\ err' = [kind |-> "ImageError", step |-> -1]
          /\ pc' = "raised"
          /\ UNCHANGED <<image_tensor, seeds>>
     ELSE /\ image_tensor' = preprocess_image_RGB(imageFiles[image_path], max_frames)
          /\ seeds' = Append(seeds, imageFiles[image_path].origin)
          /\ pc' = "blend"
          /\ UNCHANGED err
  /\ UNCHANGED <<inputVars, text, text_emb, text_emb_neg, model_kwargs, guide,
                 alphas, blended, latentNaN, step, fileVars, prompts, seg,
                 all_frames, video>>

\* process: normalise the image by its own std, blend with noise, renormalise.
\* A zero std gives 0/0 = NaN, which every later product and sum keeps.
Blend ==
  /\ pc = "blend"
  /\ alphas' = Alphas(initial_alpha, ratio, max_frames)
  /\ blended' = Blended(alphas')
  /\ latentNaN' = StdIsZero(image_tensor)
  /\ pc' = "save_noise"
  /\ UNCHANGED <<inputVars, text, encVars, image_tensor, step, fileVars,
                 loopVars, video, err>>

\* process: self.save_noise(...); vutils.save_image raises when cwd/noise
\* cannot be written
save_noise ==
  /\ pc = "save_noise"
  /\ \E writable \in BOOLEAN :
       IF writable
       THEN pc' = "sample_enter" /\ UNCHANGED err
       ELSE pc' = "raised" /\ err' = [kind |-> "PreviewWriteError", step |-> -1]
  /\ UNCHANGED <<inputVars, text, encVars, latVars, fileVars, loopVars, video>>

\* process: the call self.diffusion.ddim_sample_loop(noise=..., model_kwargs=[...])
SampleEnter ==
  /\ pc = "sample_enter"
  /\ model_kwargs' = MakeKwargs(context)
  /\ step' = 0
  /\ pc' = "sampling"
  /\ UNCHANGED <<inputVars, text, text_emb, text_emb_neg, context, guide,
                 image_tensor, alphas, blended, latentNaN, fileVars, loopVars,
                 video, err>>

\* the guidance pair one loop iteration evaluates the network with
ddim_guidance(kw) == [pos |-> kw[1], neg |-> kw[2]]

\* one iteration of ddim_sample_loop: the network is evaluated with the
\* positive and the negative conditioning; if it raises, the loop raises
\* SamplingFailed carrying the step index
SampleStep ==
  /\ pc = "sampling" /\ step < NumSteps
  /\ guide' = ddim_guidance(model_kwargs)
  /\ \E raises \in BOOLEAN :
       IF raises
       THEN /\ err' = SamplingFailed(step)
            /\ pc' = "loop_raised"
            /\ UNCHANGED step
       ELSE /\ step' = step + 1
            /\ UNCHANGED <<err, pc>>
  /\ UNCHANGED <<inputVars, text, text_emb, text_emb_neg, context, model_kwargs,
                 image_tensor, alphas, blended, latentNaN, fileVars, loopVars,
                 video>>

ProcessUnwindSwallowing ==
  /\ pc = "loop_raised"
  /\ video' = DecodedVideo(seg, max_frames)
  /\ pc' = "save_webm"
  /\ UNCHANGED <<inputVars, text, encVars, latVars, fileVars, loopVars, err>>

\* process and __call__ have no handler around ddim_sample_loop: what the
\* loop raises leaves both, skipping decode, postprocess and save_webm
ProcessUnwind ==
  /\ pc = "loop_raised"
  /\ pc' = "raised"
  /\ UNCHANGED <<inputVars, text, encVars, latVars, fileVars, loopVars, video, err>>

\* process: rescale, vae.decode, rearrange; __call__: out = self.postprocess(y)
Decode ==
  /\ pc = "sampling" /\ step = NumSteps
  /\ video' = DecodedVideo(seg, max_frames)
  /\ pc' = "save_webm"
  /\ UNCHANGED <<inputVars, text, encVars, latVars, fileVars, loopVars, err>>

\* save_webm: with imageio.get_writer(file_path, ...) as writer
OpenWriter ==
  /\ pc = "save_webm"
  /\ outFile' = OpenedFile(outFile)
  /\ writerOpen' = TRUE
  /\ wpos' = 0
  /\ pc' = "writing"
  /\ UNCHANGED <<inputVars, text, encVars, latVars, imageFiles, image_path,
                 loopVars, video, err>>

\* save_webm: writer.append_data(frame_array), which may raise
AppendData ==
  /\ pc = "writing" /\ wpos < Len(video)
  /\ \E ok \in BOOLEAN :
       IF ok
       THEN /\ outFile' = Append(outFile, Encoded(video[wpos + 1]))
            /\ wpos' = wpos + 1
            /\ UNCHANGED <<pc, err>>
       ELSE /\ err' = [kind |-> "WriterError", step |-> wpos]
            /\ pc' = "writer_exit"
            /\ UNCHANGED <<outFile, wpos>>
  /\ UNCHANGED <<inputVars, text, encVars, latVars, imageFiles, image_path,
                 writerOpen, loopVars, video>>

CloseWriterLeaking ==
  /\ \/ pc = "writing" /\ wpos = Len(video)
     \/ pc = "writer_exit"
  /\ writerOpen' = (pc = "writer_exit")
  /\ pc' = IF err # NoErr THEN "raised"
           ELSE IF mode = "call" THEN "done" ELSE "readback"
  /\ UNCHANGED <<inputVars, text, encVars, latVars, imageFiles, image_path,
                 outFile, wpos, loopVars, video, err>>

\* save_webm: leaving the with block, normally or by exception, closes the
\* writer; an exception then leaves save_webm and __call__
CloseWriter ==
  /\ \/ pc = "writing" /\ wpos = Len(video)
     \/ pc = "writer_exit"
  /\ writerOpen' = FALSE
  /\ pc' = IF err # NoErr THEN "raised"
           ELSE IF mode = "call" THEN "done" ELSE "readback"
  /\ UNCHANGED <<inputVars, text, encVars, latVars, imageFiles, image_path,
                 outFile, wpos, loopVars, video, err>>

\* process_multiline_prompt: read the video back, keep its frames, save its
\* last frame as the next seed image
ReadBack ==
  /\ pc = "readback"
  /\ LET video_frames == outFile
         last == LastFrame(video_frames)
     IN /\ all_frames' = Extend(all_frames, video_frames)
        /\ \E flat \in BOOLEAN :
             imageFiles' = [imageFiles EXCEPT ![TempPath] =
                              [origin |-> [seg |-> last.seg, idx |-> last.idx],
                               px |-> GenPx(flat)]]
        /\ image_path' = TempPath
  /\ pc' = "loop"
  /\ UNCHANGED <<inputVars, text, encVars, latVars, outFile, writerOpen, wpos,
                 prompts, seg, seeds, video, err>>

\* process_multiline_prompt: with imageio.get_writer(output_file_path, ...)
ConcatOpen ==
  /\ pc = "concat_open"
  /\ outFile' = OpenedFile(outFile)
  /\ writerOpen' = TRUE
  /\ wpos' = 0
  /\ pc' = "concat_writing"
  /\ UNCHANGED <<inputVars, text, encVars, latVars, imageFiles, image_path,
                 loopVars, video, err>>

\* process_multiline_prompt: writer.append_data(frame)
ConcatAppend ==
  /\ pc = "concat_writing" /\ wpos < Len(all_frames)
  /\ \E ok \in BOOLEAN :
       IF ok
       THEN /\ outFile' = Append(outFile, Encoded(all_frames[wpos + 1]))
            /\ wpos' = wpos + 1
            /\ UNCHANGED <<pc, err>>
       ELSE /\ err' = [kind |-> "WriterError", step |-> wpos]
            /\ pc' = "concat_exit"
            /\ UNCHANGED <<outFile, wpos>>
  /\ UNCHANGED <<inputVars, text, encVars, latVars, imageFiles, image_path,
                 writerOpen, loopVars, video>>

\* process_multiline_prompt: leaving the with block closes the writer
ConcatClose ==
  /\ \/ pc = "concat_writing" /\ wpos = Len(all_frames)
     \/ pc = "concat_exit"
  /\ writerOpen' = FALSE
  /\ pc' = IF err # NoErr THEN "raised" ELSE "cleanup"
  /\ UNCHANGED <<inputVars, text, encVars, latVars, imageFiles, image_path,
                 outFile, wpos, loopVars, video, err>>

\* process_multiline_prompt: remove temp_last_frame.png, return "complete"
Cleanup ==
  /\ pc = "cleanup"
  /\ imageFiles' = [imageFiles EXCEPT ![TempPath] = NoFile]
  /\ pc' = "done"
  /\ UNCHANGED <<inputVars, text, encVars, latVars, image_path, outFile,
                 writerOpen, wpos, loopVars, video, err>>

Next ==
  \/ CallEntry
  \/ MultiEntry
  \/ LoopHead
  \/ preprocess
  \/ LoadImage
  \/ Blend
  \/ save_noise
  \/ SampleEnter
  \/ SampleStep
  \/ ProcessUnwind
  \/ Decode
  \/ OpenWriter
  \/ AppendData
  \/ CloseWriter
  \/ ReadBack
  \/ ConcatOpen
  \/ ConcatAppend
  \/ ConcatClose
  \/ Cleanup

Spec == Init /\ [][Next]_vars

\* ---- properties ---------------------------------------------------------
\* number of prompts in the input: one more than its newlines
NumPrompts == Cardinality({i \in 1..Len(multiline_prompt) : multiline_prompt[i] = NL}) + 1

\* the video one generation of segment k stores
SegmentFile(k) == [i \in 1..max_frames |-> [seg |-> k, idx |-> i - 1, enc |-> 1]]

\* positions of __call__ before save_webm opens the writer
PreWrite == {"preprocess", "load_image", "blend", "save_noise", "sample_enter",
             "sampling", "loop_raised", "save_webm"}

\* C1: when process_multiline_prompt returns, the output video holds exactly
\* P*F frames, and frame i is frame (i mod F) of segment (i div F) + 1, that
\* is, the segments' frame sequences concatenated in prompt order.
C1_ConcatInPromptOrder ==
  (mode = "multi" /\ pc = "done") =>
     /\ Len(outFile) = NumPrompts * max_frames
     /\ \A i \in 1..Len(outFile) :
          /\ outFile[i].seg = ((i - 1) \div max_frames) + 1
          /\ outFile[i].idx = (i - 1) % max_frames

C1_Witness ==
  /\ mode = "multi" /\ pc = "done"
  /\ NumPrompts = 2 /\ max_frames = 4 /\ Len(outFile) = 8
  /\ outFile[5].seg = 2 /\ outFile[5].idx = 0

\* C2: segment 1 is seeded from the caller's image, and segment k+1 from
\* frame F-1 of segment k; the seed file written after a segment is the last
\* frame of the video that segment stored.
C2_SeedIsPredecessorLastFrame ==
  /\ \A k \in 1..Len(seeds) :
       seeds[k] = IF k = 1 THEN CallerOrigin
                  ELSE [seg |-> k - 1, idx |-> max_frames - 1]
  /\ (pc = "loop" /\ seg >= 1) =>
       /\ image_path = TempPath
       /\ imageFiles[image_path].origin =
            [seg |-> outFile[Len(outFile)].seg, idx |-> outFile[Len(outFile)].idx]

C2_Witness ==
  /\ Len(seeds) = 2 /\ max_frames = 4
  /\ seeds[2] = [seg |-> 1, idx |-> 3]

\* C3: the output file is held open only inside a with block, so it is closed
\* whenever save_webm or the concatenating write has returned or raised, and
\* a writer error ends in the call raising, never in a normal return.
C3_WriterScoped ==
  /\ writerOpen => pc \in {"writing", "writer_exit", "concat_writing", "concat_exit"}
  /\ err.kind = "WriterError" => pc \in {"writer_exit", "concat_exit", "raised"}

C3_Witness ==
  /\ pc = "raised" /\ err.kind = "WriterError" /\ err.step >= 1
  /\ ~writerOpen /\ Len(outFile) >= 1

\* C4: in a single __call__, an undecodable image never gets past loading,
\* and until every stage before save_webm has completed (and after any of
\* them has failed) the output file is the prior file and no writer is open.
C4_PriorOutputKept ==
  mode = "call" =>
     /\ imageFiles[InputPath].px = <<>> =>
          pc \in {"start", "preprocess", "load_image", "raised"}
     /\ (pc \in PreWrite \cup {"start"} \/ (pc = "raised" /\ err.kind # "WriterError")) =>
          (outFile = PriorFile /\ ~writerOpen)

C4_Witness ==
  /\ mode = "call" /\ pc = "raised" /\ err.kind = "ImageError"
  /\ outFile = PriorFile /\ Len(PriorFile) >= 1

\* C5: a latent made NaN by a zero standard deviation never reaches the
\* sampler, the decoder or the writer.
C5_NoNaNReachesSampler ==
  ~(latentNaN /\ pc \in {"sample_enter", "sampling", "save_webm", "writing",
                         "writer_exit", "readback", "done"})

C8_BlendSchedule ==
  pc \in {"save_noise", "sample_enter", "sampling", "save_webm"} =>
     /\ Len(alphas) = max_frames
     /\ alphas[1][1] * Den = initial_alpha * alphas[1][2]
     /\ \A i \in 1..Len(alphas) :
          /\ alphas[i][2] > 0
          /\ 0 <= alphas[i][1]
          /\ alphas[i][1] * Den <= initial_alpha * alphas[i][2]
     /\ \A i \in 1..(Len(alphas) - 1) :
          /\ alphas[i + 1][1] * alphas[i][2] * Den = alphas[i][1] * ratio * alphas[i + 1][2]
          /\ alphas[i + 1][1] * alphas[i][2] <= alphas[i][1] * alphas[i + 1][2]
     /\ Len(blended) = max_frames
     /\ \A i \in 1..Len(blended) :
          /\ blended[i].img = alphas[i]
          /\ blended[i].noise[2] = alphas[i][2]
          /\ blended[i].noise[1] + alphas[i][1] = alphas[i][2]

C8_Witness ==
  /\ pc = "save_noise" /\ max_frames = 4
  /\ initial_alpha = 1 /\ ratio = 2
  /\ alphas[4] = <<8, 81>>

\* C9: a generation never ends because the previews could not be written.
C9_PreviewFailureHarmless == err.kind # "PreviewWriteError"

\* C10: in chaining, after segment k has been written and until the next
\* write opens the file, the output file holds exactly segment k's frames,
\* also when segment k+1 fails before its write; frames of more than one
\* segment are in the file only after all P segments have succeeded.
C10_IntermediateOutput ==
  mode = "multi" =>
     /\ (pc \in {"readback", "loop", "concat_open"} /\ seg >= 1) =>
          outFile = SegmentFile(seg)
     /\ ((pc \in PreWrite \/ (pc = "raised" /\ err.kind # "WriterError")) /\ seg >= 2) =>
          outFile = SegmentFile(seg - 1)
     /\ (\E i, j \in 1..Len(outFile) : outFile[i].seg # outFile[j].seg) =>
          /\ seg = Len(prompts)
          /\ Len(all_frames) = Len(prompts) * max_frames
          /\ pc \in {"concat_writing", "concat_exit", "cleanup", "done", "raised"}

C10_Witness ==
  /\ mode = "multi" /\ pc = "raised" /\ seg = 2
  /\ err.kind = "SamplingFailed"
  /\ outFile = SegmentFile(1)

====
